---- MODULE Spec2Model ----
(***************************************************************************)
(* WhatSend: WhatsApp connection lifecycle and outbound delivery pipeline. *)
(*                                                                         *)
(* The durable Shop row (Prisma), the BaileysService objects and the       *)
(* sockets they open, the asynchronous event handlers of a socket, and the *)
(* BullMQ message queue with its worker processor.                         *)
(*                                                                         *)
(* A handler that has issued a database write and waits for it is a task   *)
(* in `tasks`; the step that removes the task applies the write and runs   *)
(* the handler up to its next write.  Writes of different handlers         *)
(* therefore commit in any order.  The clock counts units of 5000 ms.      *)
(***************************************************************************)
EXTENDS Naturals, Integers, Sequences, FiniteSets, TLC

\* ---------------------------------------------------------------- bounds
MaxEvents == 4       \* requests and socket events in one run
MaxTasks == 2        \* asynchronous continuations in flight at once
MaxTime == 3         \* ticks of the wall clock
MaxJobs == 2         \* queueMessage calls in one run

Shops == {"shop-a"}

\* ------------------------------------------------------------ credentials
\* An AuthenticationCreds value: `id` names the identity initAuthCreds()
\* generated, `gen` counts the updates the protocol client applied to it
\* (gen >= 1: the pairing completed, creds.me is set).
\* The whatsappSession column holds such a value, or JSON null.
JsonNull == [id |-> 0, gen |-> 0]

initAuthCreds(n) == [id |-> n, gen |-> 0]

Registered(c) == c.gen >= 1

\* A qrCode column value: the n-th challenge, or null.
NullQr == <<>>
Undefined == <<"undefined">>
Qr(n) == <<"qr", n>>

NullDate == 0

VARIABLES
  shop,          \* Shop row per shopifyDomain
  sockets,       \* every WASocket made so far, by id (1..Len)
  services,      \* every BaileysService object made so far: its this.socket
  activeConnections,  \* connection.service.ts: shopDomain -> service (0: absent)
  tasks,         \* asynchronous continuations in flight
  connects,      \* initializeConnection calls so far
  nextCred,      \* next identity initAuthCreds() generates
  qrCount,       \* pairing challenges emitted so far
  credUpdates,   \* creds.update events so far
  disconnects,   \* disconnectWhatsApp calls so far
  events,        \* requests and socket events so far
  now,           \* wall clock
  jobs,          \* every job added to the 'whatsapp-messages' queue, by id
  history,       \* MessageHistory rows, in the order they were created
  codec,         \* one session value on its way through save and load
  recon,         \* the startup script (reconnect-sessions.ts): where it is
  worker,        \* the worker process: running, closing or exited
  billing        \* billing.service.ts: the row's billing columns, calls in flight

\* The startup script has not been started.
NoRecon == [pc |-> "off"]

\* The worker process as it starts.
WorkerUp == [st |-> "running", atSignal |-> {}]

\* No billing call has been made (the specifications of the connection, the
\* queue and the worker processes never touch the billing columns).
NoBilling == [pc |-> "off"]

connVars == <<shop, sockets, services, activeConnections, tasks, connects, nextCred, qrCount, credUpdates, disconnects, events, now>>

queueVars == <<jobs, history>>

procVars == <<recon, worker, billing>>

vars == <<connVars, queueVars, codec, procVars>>

\* ------------------------------------------------------------ Shop rows
NewShop ==
  [connectionStatus |-> "disconnected", qrCode |-> NullQr, whatsappConnected |-> FALSE,
   whatsappSession |-> JsonNull, lastConnectedAt |-> NullDate, messagesSent |-> 0]

ConnectedShop ==
  [connectionStatus |-> "connected", qrCode |-> NullQr, whatsappConnected |-> TRUE,
   whatsappSession |-> [id |-> 1, gen |-> 1], lastConnectedAt |-> 1, messagesSent |-> 0]

\* No row of the shop (it was deleted): findUnique answers null, update throws
\* (updateConnectionStatus, clearSession and saveToDatabase catch that).
NoRow == [deleted |-> TRUE]

\* prisma.shop.update({ where: { shopifyDomain: s }, data })
ShopUpdate(rows, s, data) ==
  IF rows[s] = NoRow THEN rows
  ELSE [rows EXCEPT ![s] = [f \in DOMAIN @ |-> IF f \in DOMAIN data THEN data[f] ELSE @[f]]]

\* (mutant) the qrCode argument is dropped.
StatusData_DropQr(status, qr, date) ==
  IF status = "connected"
  THEN [connectionStatus |-> status, whatsappConnected |-> TRUE, lastConnectedAt |-> date,
        qrCode |-> NullQr]
  ELSE IF status \in {"disconnected", "error"}
       THEN [connectionStatus |-> status, whatsappConnected |-> FALSE, qrCode |-> NullQr]
       ELSE [connectionStatus |-> status]

\* (mutant) every status write stamps lastConnectedAt.
StatusData_AlwaysDate(status, qr, date) ==
  [connectionStatus |-> status, lastConnectedAt |-> date]

\* The `data` updateConnectionStatus builds for (status, qrCode).
StatusData(status, qr, date) ==
  LET base == [connectionStatus |-> status]
      withQr == IF qr # Undefined THEN base @@ [qrCode |-> qr] ELSE base
  IN  IF status = "connected"
      THEN [whatsappConnected |-> TRUE, lastConnectedAt |-> date, qrCode |-> NullQr] @@ withQr
      ELSE IF status \in {"disconnected", "error"}
           THEN [whatsappConnected |-> FALSE, qrCode |-> NullQr] @@ withQr
           ELSE withQr

updateConnectionStatus(rows, s, status, qr, date) ==
  ShopUpdate(rows, s, StatusData(status, qr, date))

\* getConnectionStatus(shopDomain)
getConnectionStatus(s) ==
  [isConnected |-> shop[s].whatsappConnected,
   connectionStatus |-> shop[s].connectionStatus,
   qrCode |-> shop[s].qrCode]

\* ------------------------------------------------------------ tasks
Task(k, pc, svc, s) ==
  [k |-> k, pc |-> pc, svc |-> svc, shop |-> s, status |-> "", qr |-> Undefined,
   blob |-> JsonNull, origin |-> ""]

InitTask(svc, s, origin) == [Task("init", "status", svc, s) EXCEPT !.origin = origin]
WriteTask(s, status, qr, then) ==
  [Task("write", then, 0, s) EXCEPT !.status = status, !.qr = qr]
SaveTask(s, blob) == [Task("save", "", 0, s) EXCEPT !.blob = blob]
TimerTask(svc, s) == Task("timer", "", svc, s)

Room == Cardinality(tasks) < MaxTasks

OpenSockets(s) == {i \in 1..Len(sockets) : sockets[i].shop = s /\ sockets[i].st # "closed"}

\* ------------------------------------------------------------ connect
\* startWhatsAppConnection(shopDomain): the first update, the get-or-create of
\* the shop's BaileysService, and initializeConnection up to its first await.
startWhatsAppConnection(s) ==
  /\ events < MaxEvents /\ Room
  /\ shop' = ShopUpdate(shop, s, [connectionStatus |-> "connecting", qrCode |-> NullQr])
  /\ LET fresh == activeConnections[s] = 0
         svc == IF fresh THEN Len(services) + 1 ELSE activeConnections[s]
     IN  /\ services' = IF fresh THEN Append(services, [shop |-> s, socket |-> 0]) ELSE services
         /\ activeConnections' = [activeConnections EXCEPT ![s] = svc]
         /\ tasks' = tasks \cup {InitTask(svc, s, "ui")}
  /\ connects' = connects + 1
  /\ UNCHANGED <<sockets, nextCred, qrCount, credUpdates, disconnects, now, queueVars, codec, procVars>>
  /\ events' = events + 1

\* initializeConnection: `await updateConnectionStatus(shopId, 'connecting')`
\* returns (it catches the error of an update without a row) and
\* getDatabaseAuthState issues its findUnique.
InitStatus(t) ==
  /\ t.k = "init" /\ t.pc = "status"
  /\ shop' = updateConnectionStatus(shop, t.shop, "connecting", Undefined, now)
  /\ tasks' = (tasks \ {t}) \cup {[t EXCEPT !.pc = "load"]}
  /\ UNCHANGED <<sockets, services, activeConnections, connects, nextCred, qrCount, credUpdates, disconnects, events, now, queueVars, codec, procVars>>

\* getDatabaseAuthState(shopId): the credentials of the session it read
\* (`stored`), or fresh ones when there is none.
getDatabaseAuthState(stored, n) ==
  IF stored # JsonNull THEN stored ELSE initAuthCreds(n)

\* A WASocket as makeWASocket returns it.  `loaded` keeps the credentials it
\* was opened with and `seen` the session getDatabaseAuthState read; a closed socket keeps the state it was closed in (`from`),
\* lastDisconnect's reason, the number of connects made by then, and whether
\* credential saves were all that was in flight (`savesOnly`).
NewSocket(s, svc, creds, seen, origin) ==
  [shop |-> s, svc |-> svc, st |-> "connecting", creds |-> creds, loaded |-> creds,
   seen |-> seen,
   origin |-> origin, from |-> "", reason |-> "", closedAt |-> 0, savesOnly |-> FALSE]

Closed(sock, reason) ==
  [sock EXCEPT !.st = "closed", !.from = sock.st, !.reason = reason, !.closedAt = connects,
               !.savesOnly = \A t \in tasks : t.k = "save"]

\* getDatabaseAuthState reads the session, fetchLatestBaileysVersion answers
\* (it touches no state of the program), makeWASocket(...) makes the socket
\* and the two handlers are registered; this.socket is overwritten, whatever
\* it held.
InitSocket(t) ==
  /\ t.k = "init" /\ t.pc = "load"
  /\ LET stored == IF shop[t.shop] = NoRow THEN JsonNull ELSE shop[t.shop].whatsappSession
     IN  sockets' = Append(sockets,
            NewSocket(t.shop, t.svc, getDatabaseAuthState(stored, nextCred), stored, t.origin))
  /\ nextCred' = nextCred + 1
  /\ services' = [services EXCEPT ![t.svc].socket = Len(sockets) + 1]
  /\ tasks' = tasks \ {t}
  /\ UNCHANGED <<shop, activeConnections, connects, qrCount, credUpdates, disconnects, events, now, queueVars, codec, procVars>>

\* fetchLatestBaileysVersion or makeWASocket throws: the catch of
\* initializeConnection issues updateConnectionStatus(shopId, 'error').
InitThrow(t) ==
  /\ t.k = "init" /\ t.pc = "load"
  /\ tasks' = (tasks \ {t}) \cup {[t EXCEPT !.pc = "err"]}
  /\ UNCHANGED <<shop, sockets, services, activeConnections, connects, nextCred, qrCount, credUpdates, disconnects, events, now, queueVars, codec, procVars>>

\* (mutant) the catch of initializeConnection schedules another attempt.
InitErr_Retry(t) ==
  /\ t.k = "init" /\ t.pc = "err"
  /\ shop' = updateConnectionStatus(shop, t.shop, "error", Undefined, now)
  /\ tasks' = (tasks \ {t}) \cup {TimerTask(t.svc, t.shop)}
  /\ UNCHANGED <<sockets, services, activeConnections, connects, nextCred, qrCount, credUpdates, disconnects, events, now, queueVars, codec, procVars>>

\* ... and rethrows: to startWhatsAppConnection's catch, which issues its own
\* update, to the worker's processor, to the startup script's loop, or to
\* nobody (the reconnect timer's call is not awaited).
InitErr(t) ==
  /\ t.k = "init" /\ t.pc = "err"
  /\ shop' = updateConnectionStatus(shop, t.shop, "error", Undefined, now)
  /\ tasks' = (tasks \ {t}) \cup
        (IF t.origin = "ui" THEN {[t EXCEPT !.pc = "uiErr"]}
         ELSE IF t.origin \in {"worker", "startup"} THEN {[t EXCEPT !.pc = "rethrown"]}
         ELSE {})
  /\ UNCHANGED <<sockets, services, activeConnections, connects, nextCred, qrCount, credUpdates, disconnects, events, now, queueVars, codec, procVars>>

InitUiErr(t) ==
  /\ t.k = "init" /\ t.pc = "uiErr"
  /\ shop' = ShopUpdate(shop, t.shop, [connectionStatus |-> "error", qrCode |-> NullQr])
  /\ tasks' = tasks \ {t}
  /\ UNCHANGED <<sockets, services, activeConnections, connects, nextCred, qrCount, credUpdates, disconnects, events, now, queueVars, codec, procVars>>

\* ------------------------------------------------------------ socket events
\* connection.update { qr }: the handler issues
\* updateConnectionStatus(shopId, 'awaiting_scan', qr).
EmitQr(i) ==
  /\ sockets[i].st \in {"connecting", "qr"} /\ ~Registered(sockets[i].creds)
  /\ events < MaxEvents /\ Room
  /\ sockets' = [sockets EXCEPT ![i].st = "qr"]
  /\ qrCount' = qrCount + 1
  /\ tasks' = tasks \cup {WriteTask(sockets[i].shop, "awaiting_scan", Qr(qrCount + 1), "")}
  /\ UNCHANGED <<shop, services, activeConnections, connects, nextCred, credUpdates, disconnects, now, queueVars, codec, procVars>>
  /\ events' = events + 1

\* connection.update { connection: 'open' }
EmitOpen(i) ==
  /\ sockets[i].st = "connecting" /\ Registered(sockets[i].creds)
  /\ events < MaxEvents /\ Room
  /\ sockets' = [sockets EXCEPT ![i].st = "open"]
  /\ tasks' = tasks \cup {WriteTask(sockets[i].shop, "connected", Undefined, "")}
  /\ UNCHANGED <<shop, services, activeConnections, connects, nextCred, qrCount, credUpdates, disconnects, now, queueVars, codec, procVars>>
  /\ events' = events + 1

\* (mutant) every close is handled as a logout.
OnClose_AlwaysLogout(s, svc, loggedOut) ==
  {[k |-> "write", pc |-> "clearSession", svc |-> 0, shop |-> s, status |-> "disconnected",
    qr |-> Undefined, blob |-> JsonNull, origin |-> ""]}

\* The close branch of the connection.update handler.
OnClose(s, svc, loggedOut) ==
  IF loggedOut
  THEN {WriteTask(s, "disconnected", Undefined, "clearSession")}
  ELSE {TimerTask(svc, s)}

\* connection.update { connection: 'close', lastDisconnect }
EmitClose(i, loggedOut) ==
  /\ sockets[i].st # "closed"
  /\ events < MaxEvents /\ Room
  /\ sockets' = [sockets EXCEPT ![i] = Closed(@, IF loggedOut THEN "loggedOut" ELSE "transient")]
  /\ tasks' = tasks \cup OnClose(sockets[i].shop, sockets[i].svc, loggedOut)
  /\ UNCHANGED <<shop, services, activeConnections, connects, nextCred, qrCount, credUpdates, disconnects, now, queueVars, codec, procVars>>
  /\ events' = events + 1

\* creds.update: the client has changed the credentials in place (the scan of
\* the challenge registers them); the handler calls saveCreds, which
\* serializes { creds, keys } as they are now and issues the update.
EmitCredsUpdate(i) ==
  /\ sockets[i].st \in {"qr", "open"}
  /\ events < MaxEvents /\ Room
  /\ credUpdates' = credUpdates + 1
  /\ LET c == [sockets[i].creds EXCEPT !.gen = @ + 1]
     IN  /\ sockets' = [sockets EXCEPT ![i].creds = c]
         /\ tasks' = tasks \cup {SaveTask(sockets[i].shop, c)}
  /\ UNCHANGED <<shop, services, activeConnections, connects, nextCred, qrCount, disconnects, now, queueVars, codec, procVars>>
  /\ events' = events + 1

\* ------------------------------------------------------------ continuations
\* A pending updateConnectionStatus write commits; after 'disconnected' of a
\* logout the handler goes on to clearSession.
CommitWrite(t) ==
  /\ t.k = "write"
  /\ shop' = updateConnectionStatus(shop, t.shop, t.status, t.qr, now)
  /\ tasks' = (tasks \ {t}) \cup
        (IF t.pc = "clearSession" THEN {Task("clear", "", 0, t.shop)} ELSE {})
  /\ UNCHANGED <<sockets, services, activeConnections, connects, nextCred, qrCount, credUpdates, disconnects, events, now, queueVars, codec, procVars>>

\* clearSession(shopId)
clearSession(rows, s) == ShopUpdate(rows, s, [whatsappSession |-> JsonNull])

CommitClear(t) ==
  /\ t.k = "clear"
  /\ shop' = clearSession(shop, t.shop)
  /\ tasks' = tasks \ {t}
  /\ UNCHANGED <<sockets, services, activeConnections, connects, nextCred, qrCount, credUpdates, disconnects, events, now, queueVars, codec, procVars>>

\* (mutant) the save writes the connection status too.
SessionData_Connected(blob) ==
  [whatsappSession |-> blob, connectionStatus |-> "connected", qrCode |-> NullQr]

\* saveToDatabase: the `data` of its update.
SessionData(blob) == [whatsappSession |-> blob]

\* saveToDatabase: the update of whatsappSession commits.
CommitSave(t) ==
  /\ t.k = "save"
  /\ shop' = ShopUpdate(shop, t.shop, SessionData(t.blob))
  /\ tasks' = tasks \ {t}
  /\ UNCHANGED <<sockets, services, activeConnections, connects, nextCred, qrCount, credUpdates, disconnects, events, now, queueVars, codec, procVars>>

\* saveToDatabase: the update rejects and the catch logs it.  `lostSave`
\* marks the attempt in flight on the socket whose credentials were not
\* stored.
SaveFails(t) ==
  /\ t.k = "save"
  /\ tasks' = tasks \ {t}
  /\ jobs' = [j \in DOMAIN jobs |->
               IF /\ jobs[j].state = "active" /\ jobs[j].svc # 0
                  /\ services[jobs[j].svc].socket # 0
                  /\ sockets[services[jobs[j].svc].socket].creds.id = t.blob.id
               THEN [jobs[j] EXCEPT !.lostSave = TRUE] ELSE jobs[j]]
  /\ UNCHANGED <<shop, sockets, services, activeConnections, connects, nextCred, qrCount, credUpdates, disconnects, events, now, history, codec, procVars>>

\* setTimeout(() => this.initializeConnection(shopId), 3000) fires.
TimerFire(t) ==
  /\ t.k = "timer"
  /\ tasks' = (tasks \ {t}) \cup {InitTask(t.svc, t.shop, "timer")}
  /\ connects' = connects + 1
  /\ UNCHANGED <<shop, sockets, services, activeConnections, nextCred, qrCount, credUpdates, disconnects, events, now, queueVars, codec, procVars>>

\* ------------------------------------------------------------ disconnect
\* BaileysService.logout up to its await: socket.end(undefined) closes the
\* socket, whose close event (no error, so no loggedOut status code) reaches
\* the connection.update handler; this.socket = null; clearSession is issued.
\* disconnectWhatsApp(shopDomain) without a service goes to markAsDisconnected.
disconnectWhatsApp(s) ==
  LET svc == activeConnections[s]
      i == IF svc = 0 THEN 0 ELSE services[svc].socket
      live == i # 0 /\ sockets[i].st # "closed"
  IN  /\ Cardinality(tasks) + (IF live THEN 2 ELSE 1) <= MaxTasks
      /\ events < MaxEvents
      /\ disconnects' = disconnects + 1
      /\ sockets' = IF live THEN [sockets EXCEPT ![i] = Closed(@, "end")] ELSE sockets
      /\ services' = IF svc = 0 THEN services ELSE [services EXCEPT ![svc].socket = 0]
      /\ tasks' = tasks \cup (IF live THEN OnClose(s, svc, FALSE) ELSE {})
                        \cup {Task("disc", IF svc = 0 THEN "mark" ELSE "clear", svc, s)}
      /\ UNCHANGED <<shop, activeConnections, connects, nextCred, qrCount, credUpdates, now, queueVars, codec, procVars>>
      /\ events' = events + 1

\* logout's clearSession commits; activeConnections.delete; markAsDisconnected
\* issues its update.
DiscClear(t) ==
  /\ t.k = "disc" /\ t.pc = "clear"
  /\ shop' = clearSession(shop, t.shop)
  /\ activeConnections' = [activeConnections EXCEPT ![t.shop] = 0]
  /\ tasks' = (tasks \ {t}) \cup {[t EXCEPT !.pc = "mark"]}
  /\ UNCHANGED <<sockets, services, connects, nextCred, qrCount, credUpdates, disconnects, events, now, queueVars, codec, procVars>>

\* markAsDisconnected(shopDomain)
DiscMark(t) ==
  /\ t.k = "disc" /\ t.pc = "mark"
  /\ shop' = ShopUpdate(shop, t.shop, [whatsappConnected |-> FALSE,
                 connectionStatus |-> "disconnected", qrCode |-> NullQr])
  /\ activeConnections' = [activeConnections EXCEPT ![t.shop] = 0]
  /\ tasks' = tasks \ {t}
  /\ UNCHANGED <<sockets, services, connects, nextCred, qrCount, credUpdates, disconnects, events, now, queueVars, codec, procVars>>

\* ------------------------------------------------------------ queue
Attempts == 3          \* defaultJobOptions.attempts
BackoffDelay == 1      \* defaultJobOptions.backoff.delay: 5000 ms, one clock unit
DefaultPriority == 10  \* queueMessage: `priority = 10`
Concurrency == 5       \* worker option `concurrency`

\* The priorities callers ask for; <<>> is an absent field of the payload.
Priorities == {1, 5}

Absent == <<>>

Messages == {"order confirmed"}

Payloads ==
  [shopId : Shops, message : Messages, imageUrl : BOOLEAN,
   priority : {Absent} \cup {<<p>> : p \in Priorities},
   scheduledAt : {Absent, <<now + 1>>}]

\* exponential backoff: delay * 2^(attemptsMade - 1)
Backoff(attemptsMade) == BackoffDelay * 2 ^ (attemptsMade - 1)

\* The job messageQueue.add makes of the options queueMessage passes.
\* `payload` keeps job.data; `started` counts the attempts claimed; `media`,
\* `sentAs` and `rows` tell what the attempt under way fetched, sent and wrote
\* to MessageHistory.
NewJob(data, priority, delay) ==
  [payload |-> data, shopId |-> data.shopId, imageUrl |-> data.imageUrl,
   priority |-> priority, at |-> now + delay,
   state |-> IF delay > 0 THEN "delayed" ELSE "waiting",
   pc |-> "", attemptsMade |-> 0, started |-> 0, svc |-> 0,
   media |-> "", sentAs |-> "", rows |-> 0, error |-> "", lostSave |-> FALSE]

\* (mutant) the caller's priority is not passed on.
queueMessage_NoPriority(p) ==
  LET delay == IF p.scheduledAt # Absent
               THEN (IF p.scheduledAt[1] > now THEN p.scheduledAt[1] - now ELSE 0) ELSE 0
  IN  NewJob(p, DefaultPriority, delay)

\* (mutant) scheduledAt is not turned into a delay.
queueMessage_NoDelay(p) ==
  NewJob(p, IF p.priority # Absent THEN p.priority[1] ELSE DefaultPriority, 0)

\* queueMessage(payload)
queueMessage(p) ==
  LET priority == IF p.priority # Absent THEN p.priority[1] ELSE DefaultPriority
      delay == IF p.scheduledAt # Absent
               THEN (IF p.scheduledAt[1] > now THEN p.scheduledAt[1] - now ELSE 0) ELSE 0
  IN  NewJob(p, priority, delay)

QueueMessage(p) ==
  /\ Len(jobs) < MaxJobs
  /\ jobs' = Append(jobs, queueMessage(p))
  /\ UNCHANGED <<connVars, history, codec, procVars>>

JobIds == 1..Len(jobs)

Active == {j \in JobIds : jobs[j].state = "active"}

\* Jobs the worker may take: waiting, or delayed and due.
Due == {j \in JobIds : jobs[j].state = "waiting" \/ (jobs[j].state = "delayed" /\ jobs[j].at <= now)}

\* (mutant) the worker takes any due job.
NextJobs_Any == Due

\* The worker takes a due job of the lowest priority number.
NextJobs == {j \in Due : \A k \in Due : jobs[j].priority <= jobs[k].priority}

\* ------------------------------------------------------------ session codec
\* What saveToDatabase and the load of getDatabaseAuthState do to a session
\* value.  A binary field is a Buffer of bytes; JSON.stringify turns it (by
\* Buffer.toJSON) into { type: 'Buffer', data: [bytes] }, which
\* BufferJSON.replacer replaces by { type: 'Buffer', data: <base64 text> }.
MaxLen == 2            \* bytes of a binary field

ByteValues == {0, 1}

RegistrationIds == {1, 2}

\* Byte strings: given bytes, or the UTF-8 bytes of a text.
Bytes(b) == [kind |-> "bytes", v |-> b]
Utf8(text) == [kind |-> "utf8", of |-> text]

\* Texts: the base64 text of a byte string.
Base64(bytes) == [kind |-> "base64", of |-> bytes]

EmptyText == Base64(Bytes(<<>>))

\* Buffer.from(text, 'base64')
FromBase64(text) == text.of

\* The JSON object { type: 'Buffer', data }
BufferObject(data) == [type |-> "Buffer", data |-> data]

ByteStrings == UNION {[1..n -> ByteValues] : n \in 0..MaxLen}

\* The session values of the run: a number and two binary fields (a
\* credential key and a key of the key store).
Sessions ==
  [registrationId : RegistrationIds,
   noiseKey : {Bytes(b) : b \in ByteStrings},
   preKey : {Bytes(b) : b \in ByteStrings}]

BinaryFields == {"noiseKey", "preKey"}

Thrown == [thrown |-> TRUE]

\* The credentials initAuthCreds() makes when nothing was loaded.
FreshSession == [fresh |-> TRUE]

\* BufferJSON.replacer on a value JSON.stringify hands it: the toJSON form of
\* a Buffer, or an object { type: 'Buffer', data: text } read from the store.
\* Buffer.from(value.data || value): of an array its bytes, of a text its
\* UTF-8 bytes; of the object itself (empty text) it throws.
replacer(value) ==
  IF value.data.kind = "base64"
  THEN IF value.data = EmptyText THEN Thrown
       ELSE BufferObject(Base64(Utf8(value.data)))
  ELSE BufferObject(Base64(value.data))

\* BufferJSON.reviver on { type: 'Buffer', data: text }:
\* Buffer.from(text, 'base64'), and the empty Buffer for an empty text.
reviver(value) ==
  IF value.data = EmptyText THEN Bytes(<<>>) ELSE FromBase64(value.data)

\* Buffer.toJSON
toJSON(buffer) == BufferObject(buffer)

\* saveToDatabase: JSON.parse(JSON.stringify({ creds, keys }, BufferJSON.replacer))
encode(c) ==
  [f \in DOMAIN c |-> IF f \in BinaryFields THEN replacer(toJSON(c[f])) ELSE c[f]]

\* getDatabaseAuthState:
\* JSON.parse(JSON.stringify(shop.whatsappSession), BufferJSON.reviver)
decode(stored) ==
  [f \in DOMAIN stored |-> IF f \in BinaryFields THEN reviver(stored[f]) ELSE stored[f]]

\* useDatabaseAuthState: the stored value goes through BufferJSON.replacer
\* once more before the reviver; when that throws, the catch leaves the
\* session empty and fresh credentials are made.
decodeReplaced(stored) ==
  LET again == [f \in DOMAIN stored |->
                  IF f \in BinaryFields THEN replacer(stored[f]) ELSE stored[f]]
  IN  IF \E f \in BinaryFields : again[f] = Thrown THEN FreshSession ELSE decode(again)

None == [none |-> TRUE]

NoCodec == [pc |-> "none"]

CodecSave ==
  /\ codec.pc = "made"
  /\ codec' = [codec EXCEPT !.pc = "saved", !.stored = encode(codec.c)]
  /\ UNCHANGED <<connVars, queueVars, procVars>>

\* The load of getDatabaseAuthState.
CodecLoad ==
  /\ codec.pc = "saved"
  /\ codec' = [codec EXCEPT !.pc = "loaded", !.by = "getDatabaseAuthState",
                            !.loaded = decode(codec.stored)]
  /\ UNCHANGED <<connVars, queueVars, procVars>>

\* The load of useDatabaseAuthState.
CodecLoadReplaced ==
  /\ codec.pc = "saved"
  /\ codec' = [codec EXCEPT !.pc = "loaded", !.by = "useDatabaseAuthState",
                            !.loaded = decodeReplaced(codec.stored)]
  /\ UNCHANGED <<connVars, queueVars, procVars>>

\* ------------------------------------------------------------ specification
\* The rows a starting process may find: a shop that never paired, or one that
\* was connected when the previous process stopped.
InitialShops == {NewShop, ConnectedShop}

ConnInit ==
  /\ shop \in [Shops -> InitialShops]
  /\ sockets = <<>>
  /\ services = <<>>
  /\ activeConnections = [s \in Shops |-> 0]
  /\ tasks = {}
  /\ connects = 0
  /\ nextCred = 2
  /\ qrCount = 0
  /\ credUpdates = 0
  /\ disconnects = 0
  /\ events = 0
  /\ now = 1
  /\ jobs = <<>>
  /\ history = <<>>
  /\ codec = NoCodec
  /\ recon = NoRecon
  /\ worker = WorkerUp
  /\ billing = NoBilling

ConnNext ==
  \/ \E s \in Shops : startWhatsAppConnection(s)
  \/ \E t \in tasks : InitStatus(t)
  \/ \E t \in tasks : InitSocket(t)
  \/ \E t \in tasks : InitThrow(t)
  \/ \E t \in tasks : InitErr(t)
  \/ \E t \in tasks : InitUiErr(t)
  \/ \E i \in 1..Len(sockets) : EmitQr(i)
  \/ \E i \in 1..Len(sockets) : EmitOpen(i)
  \/ \E i \in 1..Len(sockets), lo \in BOOLEAN : EmitClose(i, lo)
  \/ \E i \in 1..Len(sockets) : EmitCredsUpdate(i)
  \/ \E t \in tasks : CommitWrite(t)
  \/ \E t \in tasks : CommitClear(t)
  \/ \E t \in tasks : CommitSave(t)
  \/ \E t \in tasks : TimerFire(t)
  \/ \E s \in Shops : disconnectWhatsApp(s)
  \/ \E t \in tasks : DiscClear(t)
  \/ \E t \in tasks : DiscMark(t)

Init == ConnInit

Next == ConnNext

Spec == Init /\ [][Next]_vars

\* (mutant) the processor uses one BaileysService for all its jobs.
JobService_Shared(j) == 1

\* `const baileys = new BaileysService()`: every attempt has a service of its
\* own.
JobService(j) == Len(services) + 1

\* ------------------------------------------------------------ worker
\* BullMQ hands the processor a job: `new BaileysService()` and
\* initializeConnection(shopId) up to its first await.  At most `concurrency`
\* processors run at once; the limiter (10 jobs per 1000 ms) is never reached
\* by the jobs of one run.
WorkerClaim(j) ==
  /\ worker.st = "running"
  /\ j \in NextJobs
  /\ Cardinality(Active) < Concurrency
  /\ jobs' = [jobs EXCEPT ![j].state = "active", ![j].pc = "connect",
                          ![j].svc = JobService(j), ![j].started = @ + 1,
                          ![j].media = "", ![j].sentAs = "", ![j].rows = 0,
                          ![j].error = "", ![j].lostSave = FALSE]
  /\ services' = IF JobService(j) > Len(services)
                 THEN Append(services, [shop |-> jobs[j].shopId, socket |-> 0])
                 ELSE services
  /\ tasks' = tasks \cup {InitTask(JobService(j), jobs[j].shopId, "worker")}
  /\ connects' = connects + 1
  /\ UNCHANGED <<shop, sockets, activeConnections, nextCred, qrCount, credUpdates, disconnects, events, now, history, codec, procVars>>

\* error.message of what the processor catches: the error initializeConnection
\* rethrew, or the one the send threw.
ConnectError == "connect failed"
SendError == "send failed"

\* initializeConnection rejected: the processor is in its catch.
WorkerConnectFailed(j) ==
  /\ jobs[j].state = "active" /\ jobs[j].pc = "connect"
  /\ \E t \in tasks :
        /\ t.k = "init" /\ t.svc = jobs[j].svc /\ t.pc = "rethrown"
        /\ tasks' = tasks \ {t}
  /\ jobs' = [jobs EXCEPT ![j].pc = "catch", ![j].error = ConnectError]
  /\ UNCHANGED <<shop, sockets, services, activeConnections, connects, nextCred, qrCount, credUpdates, disconnects, events, now, history, codec, procVars>>

\* BaileysService.sendMessage: what the call ends in, given whether the
\* socket is open and whether the capability accepts the text.
sendMessage(open, textOk) == IF open /\ textOk THEN "text" ELSE "throw"

\* (mutant) a failed image send is not retried as text.
sendImageMessage_NoFallback(open, fetchOk, imageOk, textOk) ==
  IF fetchOk /\ open /\ imageOk THEN "image" ELSE "throw"

\* BaileysService.sendImageMessage: fetch the image and send it; on any
\* error fall back to sendMessage with the caption.
sendImageMessage(open, fetchOk, imageOk, textOk) ==
  IF fetchOk /\ open /\ imageOk THEN "image" ELSE sendMessage(open, textOk)

\* initializeConnection has returned and the 2000 ms have passed: the send.
WorkerSend(j, fetchOk, imageOk, textOk) ==
  /\ jobs[j].state = "active" /\ jobs[j].pc = "connect"
  /\ services[jobs[j].svc].socket # 0
  /\ LET open == sockets[services[jobs[j].svc].socket].st = "open"
         res == IF jobs[j].imageUrl
                THEN sendImageMessage(open, fetchOk, imageOk, textOk)
                ELSE sendMessage(open, textOk)
     IN  jobs' = [jobs EXCEPT
                    ![j].pc = IF res = "throw" THEN "catch" ELSE "log",
                    ![j].sentAs = IF res = "throw" THEN "" ELSE res,
                    ![j].error = IF res = "throw" THEN SendError ELSE "",
                    ![j].media = IF ~jobs[j].imageUrl THEN "none"
                                 ELSE IF fetchOk THEN "fetched" ELSE "unreachable"]
  /\ UNCHANGED <<connVars, history, codec, procVars>>

\* prisma.messageHistory.create of one attempt (`job`, `attempt` name it).
HistoryRow(j, status) ==
  [shopId |-> jobs[j].shopId, message |-> jobs[j].payload.message, status |-> status,
   errorMessage |-> IF status = "failed" THEN jobs[j].error ELSE "",
   job |-> j, attempt |-> jobs[j].started]

\* The rows after the processor's findUnique / `if (shop)` / create.
LogHistory(rows, j, status) ==
  IF shop[jobs[j].shopId] # NoRow THEN Append(rows, HistoryRow(j, status)) ELSE rows

\* 4. Log to MessageHistory
WorkerLogSent(j) ==
  /\ jobs[j].state = "active" /\ jobs[j].pc = "log"
  /\ history' = LogHistory(history, j, "sent")
  /\ jobs' = [jobs EXCEPT ![j].pc = "count", ![j].rows = @ + Len(history') - Len(history)]
  /\ UNCHANGED <<connVars, codec, procVars>>

\* 5. Update shop message count; the processor returns and the job completes.
WorkerCount(j) ==
  /\ jobs[j].state = "active" /\ jobs[j].pc = "count"
  /\ shop' = IF shop[jobs[j].shopId] = NoRow THEN shop
             ELSE ShopUpdate(shop, jobs[j].shopId,
                             [messagesSent |-> shop[jobs[j].shopId].messagesSent + 1])
  /\ jobs' = [jobs EXCEPT ![j].state = "completed", ![j].pc = ""]
  /\ UNCHANGED <<sockets, services, activeConnections, tasks, connects, nextCred, qrCount, credUpdates, disconnects, events, now, history, codec, procVars>>

\* (mutant) a failed job is always retried.
Retries_Always(attemptsMade) == TRUE

\* BullMQ retries a failed job while attemptsMade < opts.attempts.
Retries(attemptsMade) == attemptsMade < Attempts

\* The catch of the processor: the failed row, then `throw error`; BullMQ
\* counts the attempt and delays the job by the backoff, or fails it.
WorkerCatch(j) ==
  /\ jobs[j].state = "active" /\ jobs[j].pc = "catch"
  /\ history' = LogHistory(history, j, "failed")
  /\ LET made == jobs[j].attemptsMade + 1
     IN  jobs' = [jobs EXCEPT ![j].attemptsMade = made, ![j].pc = "",
                    ![j].rows = @ + Len(history') - Len(history),
                    ![j].state = IF Retries(made) THEN "delayed" ELSE "failed",
                    ![j].at = IF Retries(made) THEN now + Backoff(made) ELSE @]
  /\ UNCHANGED <<connVars, codec, procVars>>

\* The shop/redact webhook: the shop's MessageHistory rows and its Shop row
\* are deleted; the jobs in the queue are not touched.
ShopRedact(s) ==
  /\ shop[s] # NoRow
  /\ shop' = [shop EXCEPT ![s] = NoRow]
  /\ history' = SelectSeq(history, LAMBDA r : r.shopId # s)
  /\ UNCHANGED <<sockets, services, activeConnections, tasks, connects, nextCred, qrCount, credUpdates, disconnects, events, now, jobs, codec, procVars>>

\* The clock is advanced only while a delayed job waits for it.
Tick ==
  /\ now < 1 + MaxTime
  /\ \E j \in JobIds : jobs[j].state = "delayed" /\ jobs[j].at > now
  /\ now' = now + 1
  /\ UNCHANGED <<shop, sockets, services, activeConnections, tasks, connects, nextCred, qrCount, credUpdates, disconnects, events, queueVars, codec, procVars>>

\* ------------------------------------------------------------ delivery
\* The worker starts with one job in the queue, of any payload, for a shop
\* that never paired or was connected; every step of the attempt may fail and
\* the shop may be redacted meanwhile.
QueueInit ==
  /\ shop \in [Shops -> InitialShops]
  /\ sockets = <<>>
  /\ services = <<>>
  /\ activeConnections = [s \in Shops |-> 0]
  /\ tasks = {}
  /\ connects = 0
  /\ nextCred = 2
  /\ qrCount = 0
  /\ credUpdates = 0
  /\ disconnects = 0
  /\ events = 0
  /\ now = 1
  /\ jobs \in {<<queueMessage(p)>> : p \in Payloads}
  /\ history = <<>>
  /\ codec = NoCodec
  /\ recon = NoRecon
  /\ worker = WorkerUp
  /\ billing = NoBilling

QueueNext ==
  \/ \E j \in JobIds : WorkerClaim(j)
  \/ \E t \in tasks : InitStatus(t)
  \/ \E t \in tasks : InitSocket(t)
  \/ \E t \in tasks : InitThrow(t)
  \/ \E t \in tasks : InitErr(t)
  \/ \E j \in JobIds : WorkerConnectFailed(j)
  \/ \E i \in 1..Len(sockets) : EmitOpen(i)
  \/ \E t \in tasks : CommitWrite(t)
  \/ \E j \in JobIds, f \in BOOLEAN, g \in BOOLEAN, h \in BOOLEAN : WorkerSend(j, f, g, h)
  \/ \E j \in JobIds : WorkerLogSent(j)
  \/ \E j \in JobIds : WorkerCount(j)
  \/ \E j \in JobIds : WorkerCatch(j)
  \/ \E s \in Shops : ShopRedact(s)
  \/ Tick

SpecQueue == QueueInit /\ [][QueueNext]_vars

\* ------------------------------------------------------------ ordering
\* Text jobs for a connected shop, all due at once: they arrive while the
\* worker runs, or three of them (priorities 3, 1, 2, in this order) are in
\* the queue when it starts.  The capability accepts every send made through
\* an open socket, and the clock stands still.
OrderPayloads == {p \in Payloads : ~p.imageUrl /\ p.scheduledAt = Absent}

TextPayload(s, n) ==
  [shopId |-> s, message |-> "order confirmed", imageUrl |-> FALSE,
   priority |-> <<n>>, scheduledAt |-> Absent]

ScenarioCJobs ==
  <<queueMessage(TextPayload("shop-a", 3)), queueMessage(TextPayload("shop-a", 1)),
    queueMessage(TextPayload("shop-a", 2))>>

OrderInit ==
  /\ shop = [s \in Shops |-> ConnectedShop]
  /\ sockets = <<>>
  /\ services = <<>>
  /\ activeConnections = [s \in Shops |-> 0]
  /\ tasks = {}
  /\ connects = 0
  /\ nextCred = 2
  /\ qrCount = 0
  /\ credUpdates = 0
  /\ disconnects = 0
  /\ events = 0
  /\ now = 1
  /\ jobs \in {<<>>, ScenarioCJobs}
  /\ history = <<>>
  /\ codec = NoCodec
  /\ recon = NoRecon
  /\ worker = WorkerUp
  /\ billing = NoBilling

OrderNext ==
  \/ \E p \in OrderPayloads : QueueMessage(p)
  \/ \E j \in JobIds : WorkerClaim(j)
  \/ \E t \in tasks : InitStatus(t)
  \/ \E t \in tasks : InitSocket(t)
  \/ \E i \in 1..Len(sockets) : EmitOpen(i)
  \/ \E t \in tasks : CommitWrite(t)
  \/ \E j \in JobIds : WorkerSend(j, TRUE, TRUE, TRUE)
  \/ \E j \in JobIds : WorkerLogSent(j)
  \/ \E j \in JobIds : WorkerCount(j)
  \/ \E j \in JobIds : WorkerCatch(j)

SpecOrder == OrderInit /\ [][OrderNext]_vars

\* ------------------------------------------------------------ two shops
\* The worker with a job of each of two connected shops in its queue; the
\* send of either may fail.  The clock stands still, so a failed attempt
\* stays delayed.
TwoShops == {"shop-a", "shop-b"}

TenantInit ==
  /\ shop = [s \in TwoShops |-> ConnectedShop]
  /\ sockets = <<>>
  /\ services = <<>>
  /\ activeConnections = [s \in TwoShops |-> 0]
  /\ tasks = {}
  /\ connects = 0
  /\ nextCred = 2
  /\ qrCount = 0
  /\ credUpdates = 0
  /\ disconnects = 0
  /\ events = 0
  /\ now = 1
  /\ jobs = <<queueMessage(TextPayload("shop-a", 1)), queueMessage(TextPayload("shop-b", 1))>>
  /\ history = <<>>
  /\ codec = NoCodec
  /\ recon = NoRecon
  /\ worker = WorkerUp
  /\ billing = NoBilling

\* The steps of the attempts, tasks and sockets of the shops in S.
TenantStep(S) ==
  \/ \E j \in JobIds : jobs[j].shopId \in S /\ WorkerClaim(j)
  \/ \E t \in tasks : t.shop \in S /\ InitStatus(t)
  \/ \E t \in tasks : t.shop \in S /\ InitSocket(t)
  \/ \E t \in tasks : t.shop \in S /\ InitThrow(t)
  \/ \E t \in tasks : t.shop \in S /\ InitErr(t)
  \/ \E j \in JobIds : jobs[j].shopId \in S /\ WorkerConnectFailed(j)
  \/ \E i \in 1..Len(sockets) : sockets[i].shop \in S /\ EmitOpen(i)
  \/ \E t \in tasks : t.shop \in S /\ CommitWrite(t)
  \/ \E j \in JobIds, h \in BOOLEAN : jobs[j].shopId \in S /\ WorkerSend(j, TRUE, TRUE, h)
  \/ \E j \in JobIds : jobs[j].shopId \in S /\ WorkerLogSent(j)
  \/ \E j \in JobIds : jobs[j].shopId \in S /\ WorkerCount(j)
  \/ \E j \in JobIds : jobs[j].shopId \in S /\ WorkerCatch(j)

TenantNext == TenantStep(TwoShops)

SpecTenants == TenantInit /\ [][TenantNext]_vars

\* ------------------------------------------------------------ schedule
\* Messages queued now, for a time gone by, for now and for later, to a
\* worker whose sockets open within the 2000 ms it waits and whose sends
\* succeed.  Of the five attempts the worker may run at once, this
\* specification runs two.
ScheduleConcurrency == 2

OpenedInTime(j) ==
  /\ jobs[j].state = "active" /\ services[jobs[j].svc].socket # 0
  /\ sockets[services[jobs[j].svc].socket].st = "open"

SchedulePayloads ==
  [shopId : Shops, message : Messages, imageUrl : {FALSE}, priority : {Absent},
   scheduledAt : {Absent, <<now - 1>>, <<now>>, <<now + 1>>, <<now + 2>>}]

ScheduleInit ==
  /\ shop = [s \in Shops |-> ConnectedShop]
  /\ sockets = <<>>
  /\ services = <<>>
  /\ activeConnections = [s \in Shops |-> 0]
  /\ tasks = {}
  /\ connects = 0
  /\ nextCred = 2
  /\ qrCount = 0
  /\ credUpdates = 0
  /\ disconnects = 0
  /\ events = 0
  /\ now = 1
  /\ jobs = <<>>
  /\ history = <<>>
  /\ codec = NoCodec
  /\ recon = NoRecon
  /\ worker = WorkerUp
  /\ billing = NoBilling

ScheduleNext ==
  \/ \E p \in SchedulePayloads : QueueMessage(p)
  \/ \E j \in JobIds : Cardinality(Active) < ScheduleConcurrency /\ WorkerClaim(j)
  \/ \E t \in tasks : InitStatus(t)
  \/ \E t \in tasks : InitSocket(t)
  \/ \E i \in 1..Len(sockets) : EmitOpen(i)
  \/ \E t \in tasks : CommitWrite(t)
  \/ \E j \in JobIds : OpenedInTime(j) /\ WorkerSend(j, TRUE, TRUE, TRUE)
  \/ \E j \in JobIds : WorkerLogSent(j)
  \/ \E j \in JobIds : WorkerCount(j)
  \/ Tick

SpecSchedule == ScheduleInit /\ [][ScheduleNext]_vars

\* ------------------------------------------------------------ saves of a job
\* The worker with one job of a connected shop; the job's socket reports
\* credential updates, and a save may be rejected by the store.
CredsInit ==
  /\ shop = [s \in Shops |-> ConnectedShop]
  /\ sockets = <<>>
  /\ services = <<>>
  /\ activeConnections = [s \in Shops |-> 0]
  /\ tasks = {}
  /\ connects = 0
  /\ nextCred = 2
  /\ qrCount = 0
  /\ credUpdates = 0
  /\ disconnects = 0
  /\ events = 0
  /\ now = 1
  /\ jobs \in {<<queueMessage(p)>> : p \in OrderPayloads}
  /\ history = <<>>
  /\ codec = NoCodec
  /\ recon = NoRecon
  /\ worker = WorkerUp
  /\ billing = NoBilling

CredsNext ==
  \/ \E j \in JobIds : WorkerClaim(j)
  \/ \E t \in tasks : InitStatus(t)
  \/ \E t \in tasks : InitSocket(t)
  \/ \E i \in 1..Len(sockets) : EmitOpen(i)
  \/ \E i \in 1..Len(sockets) : EmitCredsUpdate(i)
  \/ \E t \in tasks : CommitWrite(t)
  \/ \E t \in tasks : CommitSave(t)
  \/ \E t \in tasks : SaveFails(t)
  \/ \E j \in JobIds, h \in BOOLEAN : WorkerSend(j, TRUE, TRUE, h)
  \/ \E j \in JobIds : WorkerLogSent(j)
  \/ \E j \in JobIds : WorkerCount(j)
  \/ \E j \in JobIds : WorkerCatch(j)

SpecCreds == CredsInit /\ [][CredsNext]_vars

\* ------------------------------------------------------------ load
\* What the load of a session finds: whether findUnique answers, whether the
\* row is there, and its whatsappSession: null, a JSON value that is not an
\* object, an object without `creds`, or a session as saveToDatabase wrote it.
NotAnObject == [json |-> "text"]
NoCreds == [json |-> "object without creds"]

LoadInputs ==
  [read : {"ok", "fails"}, row : {"present", "absent"},
   session : {None, NotAnObject, NoCreds} \cup {encode(c) : c \in Sessions}]

\* Whether the `if` before the parse lets the session through to it.
Parsed(in) == in.row = "present" /\ in.session \notin {None, NotAnObject}

\* getDatabaseAuthState up to its return: the findUnique is awaited outside
\* any try; creds is initAuthCreds() unless the parsed session has `creds`.
load(in) ==
  IF in.read = "fails" THEN Thrown
  ELSE IF Parsed(in) /\ in.session # NoCreds THEN decode(in.session)
  ELSE FreshSession

\* useDatabaseAuthState up to its return.
loadReplaced(in) ==
  IF in.read = "fails" THEN Thrown
  ELSE IF Parsed(in) /\ in.session # NoCreds THEN decodeReplaced(in.session)
  ELSE FreshSession

LoadDatabase ==
  /\ codec.pc = "stored"
  /\ codec' = [codec EXCEPT !.pc = "read", !.by = "getDatabaseAuthState",
                            !.loaded = load(codec.in)]
  /\ UNCHANGED <<connVars, queueVars, procVars>>

LoadReplaced ==
  /\ codec.pc = "stored"
  /\ codec' = [codec EXCEPT !.pc = "read", !.by = "useDatabaseAuthState",
                            !.loaded = loadReplaced(codec.in)]
  /\ UNCHANGED <<connVars, queueVars, procVars>>

LoadInit ==
  /\ shop = [s \in Shops |-> NewShop]
  /\ sockets = <<>>
  /\ services = <<>>
  /\ activeConnections = [s \in Shops |-> 0]
  /\ tasks = {}
  /\ connects = 0
  /\ nextCred = 2
  /\ qrCount = 0
  /\ credUpdates = 0
  /\ disconnects = 0
  /\ events = 0
  /\ now = 1
  /\ jobs = <<>>
  /\ history = <<>>
  /\ codec \in {[pc |-> "stored", in |-> i, loaded |-> None, by |-> ""] : i \in LoadInputs}
  /\ recon = NoRecon
  /\ worker = WorkerUp
  /\ billing = NoBilling

LoadNext ==
  \/ LoadDatabase
  \/ LoadReplaced

SpecLoad == LoadInit /\ [][LoadNext]_vars

\* ------------------------------------------------------------ startup
\* reconnect-sessions.ts: the selection.  findMany's `where` ...
WasConnected(row) == row # NoRow /\ row.whatsappConnected

\* ... and the filter on the rows it returned.
HasSession(row) == row.whatsappSession # JsonNull

\* (mutant) the filter on the session is left out.
Reconnectable_AnyConnected(row) == WasConnected(row)

Reconnectable(row) == WasConnected(row) /\ HasSession(row)

\* The sequences that list the members of S once each (findMany names no
\* order).
Orders(S) ==
  {q \in UNION {[1..n -> S] : n \in {Cardinality(S)}} :
     \A a \in 1..Len(q), b \in 1..Len(q) : a # b => q[a] # q[b]}

\* The rows are read and filtered; without a shop the script returns.
ReconSelect ==
  /\ recon.pc = "start"
  /\ \E q \in Orders({s \in DOMAIN shop : Reconnectable(shop[s])}) :
       recon' = [pc |-> IF q = <<>> THEN "done" ELSE "loop", selected |-> q, idx |-> 1,
                 svc |-> 0, slept |-> FALSE, requests |-> <<>>, connections |-> {}]
  /\ UNCHANGED <<connVars, queueVars, codec, worker, billing>>

\* The loop goes to its next shop, or ends.
NextShop(r) ==
  IF r.idx = Len(r.selected) THEN [r EXCEPT !.pc = "done"]
  ELSE [r EXCEPT !.pc = "loop", !.idx = @ + 1]

\* `new BaileysService()` and initializeConnection(shop.shopifyDomain) up to
\* its first await.  `requests` keeps, for every call, whether the 3000 ms
\* wait has run since the call before it.
ReconConnect ==
  /\ recon.pc = "loop"
  /\ LET s == recon.selected[recon.idx]
         svc == Len(services) + 1
     IN  /\ services' = Append(services, [shop |-> s, socket |-> 0])
         /\ tasks' = tasks \cup {InitTask(svc, s, "startup")}
         /\ recon' = [recon EXCEPT !.pc = "await", !.svc = svc, !.slept = FALSE,
                        !.requests = Append(@, [shop |-> s, slept |-> recon.slept])]
  /\ connects' = connects + 1
  /\ UNCHANGED <<shop, sockets, activeConnections, nextCred, qrCount, credUpdates, disconnects, events, now, queueVars, codec, worker, billing>>

\* initializeConnection has returned: activeConnections.set (the script's
\* own map) and the wait begins.
ReconConnected ==
  /\ recon.pc = "await"
  /\ services[recon.svc].socket # 0
  /\ recon' = [recon EXCEPT !.pc = "sleep",
                 !.connections = @ \cup {recon.selected[recon.idx]}]
  /\ UNCHANGED <<connVars, queueVars, codec, worker, billing>>

\* `await new Promise(resolve => setTimeout(resolve, 3000))` is over.
ReconSleep ==
  /\ recon.pc = "sleep"
  /\ recon' = NextShop([recon EXCEPT !.slept = TRUE])
  /\ UNCHANGED <<connVars, queueVars, codec, worker, billing>>

\* initializeConnection rejected: the loop's catch.
ReconFailed ==
  /\ recon.pc = "await"
  /\ \E t \in tasks :
        /\ t.k = "init" /\ t.svc = recon.svc /\ t.pc = "rethrown"
        /\ tasks' = tasks \ {t}
  /\ recon' = [recon EXCEPT !.pc = "catch"]
  /\ UNCHANGED <<shop, sockets, services, activeConnections, connects, nextCred, qrCount, credUpdates, disconnects, events, now, queueVars, codec, worker, billing>>

\* The catch's prisma.shop.update: on to the next shop, or, when the update
\* throws (there is no such row), out of the loop to the outer catch.
ReconCatch ==
  /\ recon.pc = "catch"
  /\ LET s == recon.selected[recon.idx]
     IN  IF shop[s] = NoRow
         THEN /\ recon' = [recon EXCEPT !.pc = "aborted"]
              /\ shop' = shop
         ELSE /\ recon' = NextShop(recon)
              /\ shop' = ShopUpdate(shop, s, [whatsappConnected |-> FALSE,
                                              connectionStatus |-> "error"])
  /\ UNCHANGED <<sockets, services, activeConnections, tasks, connects, nextCred, qrCount, credUpdates, disconnects, events, now, queueVars, codec, worker, billing>>

\* Rows as the script may find them: never connected, connected, marked
\* connected without a session, and disconnected with a session left.
StaleShop == [ConnectedShop EXCEPT !.whatsappSession = JsonNull]
PairedShop ==
  [ConnectedShop EXCEPT !.whatsappConnected = FALSE, !.connectionStatus = "disconnected"]
StartupShops == {NewShop, ConnectedShop, StaleShop, PairedShop}

StartupInit ==
  /\ shop \in [TwoShops -> StartupShops]
  /\ sockets = <<>>
  /\ services = <<>>
  /\ activeConnections = [s \in TwoShops |-> 0]
  /\ tasks = {}
  /\ connects = 0
  /\ nextCred = 2
  /\ qrCount = 0
  /\ credUpdates = 0
  /\ disconnects = 0
  /\ events = 0
  /\ now = 1
  /\ jobs = <<>>
  /\ history = <<>>
  /\ codec = NoCodec
  /\ recon = [pc |-> "start"]
  /\ worker = WorkerUp
  /\ billing = NoBilling

StartupNext ==
  \/ ReconSelect
  \/ ReconConnect
  \/ \E t \in tasks : InitStatus(t)
  \/ \E t \in tasks : InitSocket(t)
  \/ \E t \in tasks : InitThrow(t)
  \/ \E t \in tasks : InitErr(t)
  \/ ReconConnected
  \/ ReconSleep
  \/ ReconFailed
  \/ ReconCatch
  \/ \E i \in 1..Len(sockets) : EmitOpen(i)
  \/ \E t \in tasks : CommitWrite(t)
  \/ \E s \in TwoShops : ShopRedact(s)

SpecStartup == StartupInit /\ [][StartupNext]_vars

\* ------------------------------------------------------------ shutdown
\* (mutant) close does not wait for the processors that are running.
CloseWaits_Force(active) == TRUE

\* `await worker.close()`: BullMQ's close resolves when no processor is
\* running any more.
CloseWaits(active) == active = {}

\* SIGTERM or SIGINT: the handler calls worker.close(), after which the
\* worker fetches no job.  `atSignal` keeps the jobs that were in flight.
Signal ==
  /\ worker.st = "running"
  /\ worker' = [st |-> "closing", atSignal |-> Active]
  /\ UNCHANGED <<connVars, queueVars, codec, recon, billing>>

\* close has resolved: prisma.$disconnect() and process.exit(0).
Exit ==
  /\ worker.st = "closing"
  /\ CloseWaits(Active)
  /\ worker' = [worker EXCEPT !.st = "exited"]
  /\ UNCHANGED <<connVars, queueVars, codec, recon, billing>>

\* The worker process runs.
Alive == worker.st # "exited"

\* The worker with two jobs of a connected shop in its queue; the send of
\* either may fail.  The clock stands still.
ShutdownInit ==
  /\ shop = [s \in Shops |-> ConnectedShop]
  /\ sockets = <<>>
  /\ services = <<>>
  /\ activeConnections = [s \in Shops |-> 0]
  /\ tasks = {}
  /\ connects = 0
  /\ nextCred = 2
  /\ qrCount = 0
  /\ credUpdates = 0
  /\ disconnects = 0
  /\ events = 0
  /\ now = 1
  /\ jobs = <<queueMessage(TextPayload("shop-a", 1)), queueMessage(TextPayload("shop-a", 2))>>
  /\ history = <<>>
  /\ codec = NoCodec
  /\ recon = NoRecon
  /\ worker = WorkerUp
  /\ billing = NoBilling

ShutdownNext ==
  \/ Signal
  \/ Exit
  \/ \E j \in JobIds : WorkerClaim(j)
  \/ Alive /\ \E t \in tasks : InitStatus(t)
  \/ Alive /\ \E t \in tasks : InitSocket(t)
  \/ Alive /\ \E i \in 1..Len(sockets) : EmitOpen(i)
  \/ Alive /\ \E t \in tasks : CommitWrite(t)
  \/ \E j \in JobIds, h \in BOOLEAN : WorkerSend(j, TRUE, TRUE, h)
  \/ \E j \in JobIds : WorkerLogSent(j)
  \/ \E j \in JobIds : WorkerCount(j)
  \/ \E j \in JobIds : WorkerCatch(j)

SpecShutdown == ShutdownInit /\ [][ShutdownNext]_vars

\* ------------------------------------------------------------ codec runs
\* One session value is saved and then loaded, by either load.
CodecInit ==
  /\ shop = [s \in Shops |-> NewShop]
  /\ sockets = <<>>
  /\ services = <<>>
  /\ activeConnections = [s \in Shops |-> 0]
  /\ tasks = {}
  /\ connects = 0
  /\ nextCred = 2
  /\ qrCount = 0
  /\ credUpdates = 0
  /\ disconnects = 0
  /\ events = 0
  /\ now = 1
  /\ jobs = <<>>
  /\ history = <<>>
  /\ codec \in {[pc |-> "made", c |-> c, stored |-> None, loaded |-> None, by |-> ""] : c \in Sessions}
  /\ recon = NoRecon
  /\ worker = WorkerUp
  /\ billing = NoBilling

CodecNext ==
  \/ CodecSave
  \/ CodecLoad
  \/ CodecLoadReplaced

SpecCodec == CodecInit /\ [][CodecNext]_vars

\* ================================================================ claims
SocketIds == 1..Len(sockets)

Settled == tasks = {}

\* C1: for any tenant, at most one open WhatsApp socket exists at every
\* instant; a connect request for a tenant that already holds a socket does
\* not open a second one.
C1_SingleOpenHandle ==
  \A s \in Shops : Cardinality(OpenSockets(s)) <= 1

\* The socket the capability logged out while the tenant was connected, with
\* nothing but credential saves in flight, no connect or disconnect request
\* made since and no other socket of the tenant left open.
LoggedOutWhileConnected(i) ==
  /\ sockets[i].reason = "loggedOut" /\ sockets[i].from = "open"
  /\ sockets[i].savesOnly
  /\ sockets[i].closedAt = connects /\ disconnects = 0
  /\ OpenSockets(sockets[i].shop) = {}

\* C2: after connection-closed(loggedOut) while connected, once every pending
\* handler and credential save has settled, connectionStatus is disconnected
\* and the stored session is empty.
C2_LogoutClearsSession ==
  \A i \in SocketIds :
    LoggedOutWhileConnected(i) /\ Settled
      => /\ shop[sockets[i].shop].connectionStatus = "disconnected"
         /\ shop[sockets[i].shop].whatsappSession = JsonNull

\* A reconnect after a transient close of an open socket has reopened:
\* socket j, made by the reconnect timer, is open.
Reopened(j) ==
  /\ sockets[j].origin = "timer" /\ sockets[j].st = "open"
  /\ \E i \in 1..(j - 1) :
        /\ sockets[i].svc = sockets[j].svc
        /\ sockets[i].reason = "transient" /\ sockets[i].from = "open"

\* No wipe of the session is under way unless a socket of the tenant was
\* logged out (an explicit disconnect wipes in a task of its own kind).
NoWipeFromTransient ==
  \A t \in tasks :
    (t.k = "clear" \/ t.pc = "clearSession")
      => \E i \in SocketIds : sockets[i].shop = t.shop /\ sockets[i].reason = "loggedOut"

\* A socket is opened with the stored credentials whenever there are any.
ResumesStored ==
  \A j \in SocketIds : sockets[j].seen # JsonNull => sockets[j].loaded = sockets[j].seen

\* The handler of a transient close schedules the reconnect and touches no row;
\* the open handler's write makes the row connected and keeps the session.
ReconnectSteps ==
  /\ \A i \in SocketIds :
        EmitClose(i, FALSE) => shop' = shop /\ TimerTask(sockets[i].svc, sockets[i].shop) \in tasks'
  /\ \A t \in tasks :
        t.k = "write" /\ t.status = "connected" /\ CommitWrite(t)
          => /\ shop'[t.shop].connectionStatus = "connected"
             /\ shop'[t.shop].whatsappConnected
             /\ shop'[t.shop].whatsappSession = shop[t.shop].whatsappSession

\* C3: a transient close followed by a successful reopen brings the tenant
\* back to connected; the close handler and the reconnect neither clear the
\* stored session nor replace it by fresh credentials.
C3_TransientReconnectKeepsSession ==
  [](NoWipeFromTransient /\ ResumesStored) /\ [][ReconnectSteps]_vars

C3_Witness ==
  \E j \in SocketIds :
    /\ Reopened(j) /\ Settled
    /\ shop[sockets[j].shop].connectionStatus = "connected"
    /\ shop[sockets[j].shop].whatsappSession = sockets[j].loaded
    /\ sockets[j].loaded # JsonNull

\* Scenario A: the tenant never paired and one connect request is under way
\* or has made its socket; nothing failed, closed, was scanned or disconnected.
ScenarioA(s) ==
  /\ connects = 1 /\ disconnects = 0
  /\ shop[s].whatsappSession = JsonNull
  /\ \A i \in SocketIds : sockets[i].creds.gen = 0 /\ sockets[i].st # "closed"
  /\ \A t \in tasks : t.k \in {"init", "write"} /\ t.pc \notin {"err", "uiErr"}
  /\ (sockets # <<>> \/ \E t \in tasks : t.k = "init")

WritesInFlight == {t \in tasks : t.k = "write"}

\* C9: for a tenant with no stored credentials, requestConnect makes the
\* durable state connecting, then awaiting_scan once the capability has
\* emitted a pairing challenge, and getStatus then returns a pairing code.
C9_ConnectToAwaitingPairing ==
  \A s \in Shops :
    ScenarioA(s) =>
      /\ shop[s].connectionStatus \in {"connecting", "awaiting_scan"}
      /\ (qrCount = 0 => shop[s].connectionStatus = "connecting")
      /\ (qrCount > 0 /\ WritesInFlight = {}
            => /\ getConnectionStatus(s).connectionStatus = "awaiting_scan"
               /\ getConnectionStatus(s).qrCode # NullQr)
      /\ (shop[s].connectionStatus = "awaiting_scan" => shop[s].qrCode # NullQr)

C9_Witness ==
  \E s \in Shops :
    /\ ScenarioA(s) /\ qrCount > 0 /\ Settled
    /\ getConnectionStatus(s).connectionStatus = "awaiting_scan"
    /\ getConnectionStatus(s).qrCode # NullQr

\* C10: in every durable state the pairing code is non-empty only while
\* connectionStatus is awaiting_scan.
C10_QrOnlyWhileAwaiting ==
  \A s \in Shops : shop[s].qrCode # NullQr => shop[s].connectionStatus = "awaiting_scan"

\* ---------------------------------------------------------------- delivery
\* The attempt of job j under way has reached its outcome and its record.
AttemptDone(j) ==
  /\ jobs[j].started > 0
  /\ jobs[j].state \in {"completed", "failed", "delayed"} \/ jobs[j].pc = "count"

Terminal(j) == jobs[j].state \in {"completed", "failed"}

AttemptCounts ==
  \A j \in JobIds :
    /\ jobs[j].started <= Attempts /\ jobs[j].attemptsMade <= Attempts
    /\ jobs[j].state = "failed" => jobs[j].started = Attempts /\ jobs[j].attemptsMade = Attempts
    /\ jobs[j].state \in {"waiting", "delayed"}
         => jobs[j].attemptsMade = jobs[j].started /\ jobs[j].started < Attempts
    /\ jobs[j].state \in {"active", "completed"} => jobs[j].attemptsMade = jobs[j].started - 1

TerminalStays ==
  \A j \in JobIds : Terminal(j) => jobs'[j] = jobs[j]

\* C4: a job whose every attempt fails is attempted exactly Attempts (3) times
\* and then is failed; attemptsMade never exceeds Attempts; a completed or
\* failed job is never attempted again.
C4_RetriesThenFails == []AttemptCounts /\ [][TerminalStays]_vars

C4_Witness ==
  \E j \in JobIds :
    /\ jobs[j].state = "failed" /\ jobs[j].started = Attempts
    /\ Len(SelectSeq(history, LAMBDA r : r.job = j /\ r.status = "failed")) = Attempts

\* C5: every claimed attempt that has reached its outcome has written exactly
\* one MessageHistory row.
C5_OutcomeRecordedOnce ==
  \A j \in JobIds : AttemptDone(j) => jobs[j].rows = 1

\* The rows of MessageHistory the attempt under way of job j wrote.
RowsOf(j, status) ==
  SelectSeq(history, LAMBDA r : r.job = j /\ r.attempt = jobs[j].started /\ r.status = status)

FallbackStep ==
  \A j \in JobIds, g \in BOOLEAN :
    /\ jobs[j].imageUrl /\ jobs[j].state = "active"
    /\ services[jobs[j].svc].socket # 0
    /\ sockets[services[jobs[j].svc].socket].st = "open"
    /\ WorkerSend(j, FALSE, g, TRUE)
    => jobs'[j].pc = "log" /\ jobs'[j].sentAs = "text" /\ jobs'[j].media = "unreachable"

FallbackRecorded ==
  \A j \in JobIds :
    /\ jobs[j].media = "unreachable" /\ jobs[j].sentAs = "text"
    /\ AttemptDone(j) /\ shop[jobs[j].shopId] # NoRow
    => /\ jobs[j].state \in {"active", "completed"}
       /\ Len(RowsOf(j, "sent")) = 1 /\ RowsOf(j, "sent")[1].message = jobs[j].payload.message
       /\ RowsOf(j, "failed") = <<>>

Asked(j) ==
  IF jobs[j].payload.priority = Absent THEN DefaultPriority ELSE jobs[j].payload.priority[1]

ClaimsLowestFirst ==
  \A j \in JobIds : WorkerClaim(j) => \A k \in Due : Asked(j) <= Asked(k)

\* C7: among due jobs the worker never claims one while a due job with a
\* strictly lower priority number is pending: of J1 (priority 1) and J2
\* (priority 5), both due, J1 is claimed first.
C7_ClaimsByPriority == [][ClaimsLowestFirst]_vars

C7_Witness ==
  /\ Len(jobs) = 2
  /\ Asked(1) = 5 /\ Asked(2) = 1
  /\ jobs[2].started = 1 /\ jobs[1].started = 0 /\ jobs[1].state = "waiting"

\* The attempt of job j under way has invoked the capability's send; the
\* capability has accepted it.
HasSent(j) == jobs[j].media # ""

Sent(j) == jobs[j].sentAs # ""

\* C8: of the three jobs of priorities 3, 1, 2 in the queue, none has its
\* message sent before every job of a lower priority number has invoked the
\* send of its own.
C8_SendsInPriorityOrder ==
  Len(jobs) = 3 /\ Asked(1) = 3 /\ Asked(2) = 1 /\ Asked(3) = 2
    => \A j \in JobIds, k \in JobIds : Asked(k) < Asked(j) /\ Sent(j) => HasSent(k)

\* ---------------------------------------------------------------- erasure
\* A job the queue still holds: a completed job is removed
\* (removeOnComplete), a failed one is kept.
InQueue(j) == jobs[j].state # "completed"

\* C11: once the shop/redact handler has run for a shop, no MessageHistory
\* row, no stored session and no job of the shop is left to read.
C11_ErasedTenantReadsEmpty ==
  \A s \in Shops :
    shop[s] = NoRow
      => /\ SelectSeq(history, LAMBDA r : r.shopId = s) = <<>>
         /\ \A j \in JobIds : jobs[j].shopId = s => ~InQueue(j)

\* ---------------------------------------------------------------- disconnect
\* A disconnect request has ended socket i and has completed; no
\* initializeConnection was called since, and nothing but reconnect timers
\* is in flight.
DisconnectCompleted(i) ==
  /\ sockets[i].reason = "end" /\ sockets[i].closedAt = connects
  /\ \A t \in tasks : t.k = "timer"

\* C12: after an explicit disconnect request has completed, no socket of the
\* shop is open, connectionStatus is disconnected and the stored session is
\* wiped.
C12_DisconnectTearsDown ==
  \A i \in SocketIds :
    DisconnectCompleted(i)
      => /\ OpenSockets(sockets[i].shop) = {}
         /\ shop[sockets[i].shop].connectionStatus = "disconnected"
         /\ shop[sockets[i].shop].whatsappSession = JsonNull

\* ---------------------------------------------------------------- saves
SavesInFlight(s) == {t \in tasks : t.k = "save" /\ t.shop = s}

\* The only socket of the run is alive, nothing was wiped, and every save it
\* issued has committed.
SavesSettled(s) ==
  /\ Len(sockets) = 1 /\ connects = 1 /\ disconnects = 0
  /\ sockets[1].shop = s /\ sockets[1].st # "closed"
  /\ credUpdates > 0 /\ SavesInFlight(s) = {}

LastSaveWins ==
  \A s \in Shops : SavesSettled(s) => shop[s].whatsappSession = sockets[1].creds

\* C13: no two saves of a shop's session are in flight at once, and once the
\* saves have committed the stored session is the snapshot of the save issued
\* last.
C13_SavesSerialized ==
  /\ \A s \in Shops : Cardinality(SavesInFlight(s)) <= 1
  /\ LastSaveWins

\* ---------------------------------------------------------------- codec
\* A session whose keys are not empty.
ValidSession(c) == \A f \in BinaryFields : c[f] # Bytes(<<>>)

\* C14: the session a load yields of what save stored for a valid session is
\* the session saved, binary fields included.
C14_RoundTrip ==
  codec.pc = "loaded" /\ ValidSession(codec.c) => codec.loaded = codec.c

\* ---------------------------------------------------------------- frames
\* The step is the commit of a 'connected' status write for shop s.
ConnectedWrite(s) ==
  \E t \in tasks : t.k = "write" /\ t.status = "connected" /\ t.shop = s /\ CommitWrite(t)

LastConnectedFrame ==
  \A s \in Shops :
    shop'[s].lastConnectedAt # shop[s].lastConnectedAt
      => ConnectedWrite(s) /\ shop'[s].lastConnectedAt = now

\* C15: lastConnectedAt changes only in the write that makes the row
\* connected; the writes of the other statuses, credential saves, session
\* wipes and disconnects leave it as it was.
C15_LastConnectedAtFrame == [][LastConnectedFrame]_vars

C15_Witness ==
  \E s \in Shops :
    /\ disconnects > 0 /\ shop[s].connectionStatus = "disconnected"
    /\ shop[s].whatsappSession = JsonNull
    /\ shop[s].lastConnectedAt # NullDate

\* ---------------------------------------------------------------- send
\* C16: the worker sends for a job only through a connected session: no
\* attempt has made its send while its socket was still connecting (a socket
\* still connecting after the send was connecting when the send was made).
C16_SendOnlyWhenConnected ==
  \A j \in JobIds :
    jobs[j].state = "active" /\ HasSent(j)
      => sockets[services[jobs[j].svc].socket].st # "connecting"

\* ---------------------------------------------------------------- closure
\* The close handler of socket i has run for a transient closure and nothing
\* has happened since: no connect attempt was made after it, no write is in
\* flight, and the shop has no other socket.
ClosureHandled(i) ==
  /\ sockets[i].st = "closed" /\ sockets[i].reason = "transient"
  /\ sockets[i].closedAt = connects
  /\ \A t \in tasks : t.k = "timer"
  /\ OpenSockets(sockets[i].shop) = {}

\* C17: once a closure has been reported for a shop's socket and handled, the
\* shop's row does not go on reading connected.
C17_ClosureNotConnected ==
  \A i \in 1..Len(sockets) :
    ClosureHandled(i) /\ shop[sockets[i].shop] # NoRow
      => shop[sockets[i].shop].connectionStatus # "connected"

\* ---------------------------------------------------------------- logout
\* Shop s was logged out by the remote side, the handler's writes are done,
\* and no connect attempt has been made since.
LoggedOut(s) ==
  /\ \E i \in 1..Len(sockets) :
       /\ sockets[i].shop = s /\ sockets[i].reason = "loggedOut"
       /\ sockets[i].closedAt = connects
  /\ shop[s] # NoRow
  /\ shop[s].connectionStatus = "disconnected"
  /\ shop[s].whatsappSession = JsonNull

\* C18: after a terminal logout of a shop no reconnect timer starts a connect
\* attempt for it; the next attempt is a connect request.
C18_NoConnectAfterLogout ==
  [][\A t \in tasks : TimerFire(t) => ~LoggedOut(t.shop)]_vars

\* ---------------------------------------------------------------- creds.update
\* The columns of the row a credential save has no business with.
ConnectionColumns(row) ==
  [connectionStatus |-> row.connectionStatus, qrCode |-> row.qrCode,
   lastConnectedAt |-> row.lastConnectedAt, whatsappConnected |-> row.whatsappConnected]

\* The step is the creds.update event of socket i: the handler's save is
\* issued with the credentials as they are now and no row is written.
CredsEventFrame ==
  \A i \in 1..Len(sockets) :
    EmitCredsUpdate(i)
      => /\ shop' = shop
         /\ SaveTask(sockets[i].shop, sockets'[i].creds) \in tasks'

\* The step is the commit of a save: the row holds the credentials saved and
\* its connection columns are as they were.
CredsSaveFrame ==
  \A t \in tasks :
    CommitSave(t) /\ shop[t.shop] # NoRow
      => /\ shop'[t.shop].whatsappSession = t.blob
         /\ ConnectionColumns(shop'[t.shop]) = ConnectionColumns(shop[t.shop])

\* C19: a creds.update event, whatever the state of the socket and of the
\* row, stores the credentials and leaves connectionStatus, qrCode and
\* lastConnectedAt of the row as they were.
C19_CredsUpdateFrame == [][CredsEventFrame /\ CredsSaveFrame]_vars

\* A save has committed while the shop was waiting for its scan: the row holds
\* the updated credentials of a socket and still shows the challenge.
C19_Witness ==
  \E i \in 1..Len(sockets) :
    /\ credUpdates > 0 /\ sockets[i].creds.gen >= 1
    /\ shop[sockets[i].shop].whatsappSession = sockets[i].creds
    /\ sockets[i].creds # sockets[i].loaded
    /\ shop[sockets[i].shop].connectionStatus = "awaiting_scan"
    /\ shop[sockets[i].shop].qrCode # NullQr

\* ---------------------------------------------------------------- failed attempts
\* The step appends the failed row of job j's attempt, with the text of the
\* error the attempt threw.
FailedRowAppended(j) ==
  /\ Len(history') = Len(history) + 1
  /\ SubSeq(history', 1, Len(history)) = history
  /\ LET r == history'[Len(history')]
     IN  /\ r.status = "failed" /\ r.job = j /\ r.attempt = jobs[j].started
         /\ r.shopId = jobs[j].shopId
         /\ r.errorMessage = jobs[j].error
         /\ r.errorMessage \in {ConnectError, SendError}

\* The step hands the error to the queue: the attempt is counted and the job
\* is delayed for its retry or failed.
AttemptCounted(j) ==
  /\ jobs'[j].attemptsMade = jobs[j].attemptsMade + 1
  /\ jobs'[j].state \in {"delayed", "failed"}

\* C20: the catch of every attempt that threw (in connect, in the media fetch
\* or in the send) appends the attempt's failed row with the error's text and
\* rethrows, so that the queue counts the attempt.
C20_FailedAttemptRecorded ==
  [][\A j \in JobIds : WorkerCatch(j) => FailedRowAppended(j) /\ AttemptCounted(j)]_vars

\* ---------------------------------------------------------------- usage counter
\* The step appends the sent row of job j's attempt.
SentRowAppended(j) ==
  /\ Len(history') = Len(history) + 1
  /\ SubSeq(history', 1, Len(history)) = history
  /\ LET r == history'[Len(history')]
     IN  r.status = "sent" /\ r.job = j /\ r.shopId = jobs[j].shopId

\* The step adds one to messagesSent of job j's shop.
CountedOnce(j) ==
  /\ shop[jobs[j].shopId] # NoRow /\ shop'[jobs[j].shopId] # NoRow
  /\ shop'[jobs[j].shopId].messagesSent = shop[jobs[j].shopId].messagesSent + 1

\* C21: an attempt whose send succeeded appends its sent row and adds exactly
\* one to messagesSent of its shop; the catch of a failed attempt leaves the
\* counter alone.
C21_SentCountedOnce ==
  [][\A j \in JobIds :
       /\ WorkerLogSent(j) => SentRowAppended(j)
       /\ WorkerCount(j) => CountedOnce(j)
       /\ WorkerCatch(j) => shop' = shop]_vars

\* ---------------------------------------------------------------- tenants
\* What job j's attempt has of its own: the job, its service and socket, the
\* row of its shop and the history rows of its shop.
JobView(j) ==
  LET svc == jobs[j].svc
      i == IF svc = 0 THEN 0 ELSE services[svc].socket
  IN  [job |-> jobs[j],
       service |-> IF svc = 0 THEN <<>> ELSE <<services[svc]>>,
       socket |-> IF i = 0 THEN <<>> ELSE <<sockets[i]>>,
       row |-> shop[jobs[j].shopId],
       rows |-> SelectSeq(history, LAMBDA r : r.shopId = jobs[j].shopId)]

\* No step of another shop's attempt changes anything job j's attempt has.
TenantFrame ==
  \A j \in JobIds :
    TenantStep(TwoShops \ {jobs[j].shopId}) => JobView(j)' = JobView(j)

\* An attempt in flight always has a step of its own to take, whatever the
\* other shop's attempt has come to.
InFlightNotBlocked ==
  \A j \in JobIds :
    jobs[j].state = "active" => ENABLED TenantStep({jobs[j].shopId})

\* C22: the failure of one shop's job neither blocks nor touches the attempt
\* in flight for another shop: its job, its socket and its rows are changed
\* by its own steps only, and it can always go on.
C22_TenantIsolation == []InFlightNotBlocked /\ [][TenantFrame]_vars

\* One shop's job has failed its send while the other's was in flight, and
\* the other's has been sent through its open socket and recorded.
C22_Witness ==
  \E a \in JobIds, b \in JobIds :
    /\ jobs[a].shopId # jobs[b].shopId
    /\ jobs[a].state = "delayed" /\ jobs[a].attemptsMade = 1
    /\ jobs[a].error = SendError /\ jobs[b].started = 1
    /\ jobs[b].state = "completed" /\ jobs[b].sentAs = "text"
    /\ sockets[services[jobs[b].svc].socket].st = "open"
    /\ shop[jobs[b].shopId].messagesSent = 1
    /\ \E n \in 1..Len(history) : history[n].job = b /\ history[n].status = "sent"
    /\ \E n \in 1..Len(history) : history[n].job = a /\ history[n].status = "failed"

\* ---------------------------------------------------------------- startup
\* The startup script's calls of initializeConnection that have not returned.
ReconInFlight == {t \in tasks : t.k = "init" /\ t.origin = "startup"}

\* C23: the startup script connects one shop at a time, and the 3000 ms wait
\* has run between any call of initializeConnection and the call before it,
\* whether that one returned or threw.
C23_SequentialWithDelay ==
  recon.pc \notin {"off", "start"}
    => /\ Cardinality(ReconInFlight) <= 1
       /\ \A n \in 2..Len(recon.requests) : recon.requests[n].slept

\* The number of calls of initializeConnection the script has made for s.
Requests(s) == Len(SelectSeq(recon.requests, LAMBDA r : r.shop = s))

\* C24: when the startup script is through, every shop it selected has had
\* exactly one call of initializeConnection, whatever failed for the others.
C24_FailureDoesNotAbort ==
  recon.pc \in {"done", "aborted"}
    => \A n \in 1..Len(recon.selected) : Requests(recon.selected[n]) = 1

\* The shops the script has called initializeConnection for.
RequestedShops == {recon.requests[n].shop : n \in 1..Len(recon.requests)}
SelectedShops == {recon.selected[n] : n \in 1..Len(recon.selected)}

\* The step is the selection: the shops selected are those whose row is
\* marked connected and holds a session.
SelectionFrame ==
  ReconSelect
    => SelectedShops' = {s \in DOMAIN shop : /\ shop[s] # NoRow
                                             /\ shop[s].whatsappConnected
                                             /\ shop[s].whatsappSession # JsonNull}

\* Only selected shops are connected, and all of them when the loop is done.
RequestsSelected ==
  recon.pc \notin {"off", "start"}
    => /\ RequestedShops \subseteq SelectedShops
       /\ recon.pc = "done" => RequestedShops = SelectedShops

ShutdownSteps ==
  \A j \in JobIds :
    /\ WorkerClaim(j) => worker.st = "running"
    /\ jobs[j].state = "active" /\ jobs'[j].state # "active"
         => WorkerCount(j) \/ WorkerCatch(j)

\* The attempts of job j that are over have each left their row: sent for a
\* completed job, failed for the others.
Outcome(j) ==
  /\ jobs[j].state \in {"completed", "delayed", "failed"}
  /\ \E n \in 1..Len(history) :
       /\ history[n].job = j /\ history[n].attempt = jobs[j].started
       /\ history[n].status = IF jobs[j].state = "completed" THEN "sent" ELSE "failed"

\* While the worker closes, the attempts in flight can go on; when the
\* process has exited, none is in flight and those that were in flight at
\* the signal have their outcome.
ShutdownDrains ==
  /\ worker.st = "closing"
       => \A j \in Active :
            ENABLED (\/ \E t \in tasks : t.svc = jobs[j].svc /\ (InitStatus(t) \/ InitSocket(t))
                     \/ \E h \in BOOLEAN : WorkerSend(j, TRUE, TRUE, h)
                     \/ WorkerLogSent(j) \/ WorkerCount(j) \/ WorkerCatch(j))
  /\ worker.st = "exited"
       => Active = {} /\ \A j \in worker.atSignal : Outcome(j)

\* C26: after SIGTERM or SIGINT the worker claims no job, every attempt in
\* flight runs to its sent or failed end, and only then the process exits.
C26_GracefulShutdown == []ShutdownDrains /\ [][ShutdownSteps]_vars

\* The process has exited after a signal that found an attempt in flight and
\* a job waiting: the attempt has been sent and recorded, the other job was
\* never claimed.
C26_Witness ==
  /\ worker.st = "exited"
  /\ \E j \in worker.atSignal : jobs[j].state = "completed" /\ Outcome(j)
  /\ \E k \in JobIds : jobs[k].state = "waiting" /\ jobs[k].started = 0

\* ---------------------------------------------------------------- load
\* C27: the load of a session never throws; when there is no row, no
\* session, no usable session or no answer from the store, it returns fresh
\* credentials.
C27_LoadNeverFails ==
  codec.pc = "read"
    => /\ codec.loaded # Thrown
       /\ (codec.in.read = "fails" \/ codec.in.row = "absent"
             \/ codec.in.session \in {None, NotAnObject, NoCreds})
            => codec.loaded = FreshSession

\* ---------------------------------------------------------------- lost saves
\* C28: an attempt during which a save of the credentials was rejected does
\* not end as sent.
C28_LostSaveFailsJob ==
  \A j \in JobIds : jobs[j].state = "completed" => ~jobs[j].lostSave

\* ---------------------------------------------------------------- open failure
\* The step is initializeConnection's catch for task t: the row reads error
\* with no challenge, the error goes to the caller that awaits the call, and
\* nothing is scheduled.
OpenFailureHandled(t) ==
  /\ shop[t.shop] # NoRow
       => /\ shop'[t.shop].connectionStatus = "error"
          /\ shop'[t.shop].qrCode = NullQr
          /\ ~shop'[t.shop].whatsappConnected
  /\ t.origin = "ui" => [t EXCEPT !.pc = "uiErr"] \in tasks'
  /\ t.origin \in {"worker", "startup"} => [t EXCEPT !.pc = "rethrown"] \in tasks'
  /\ {u \in tasks' : u.k = "timer"} = {u \in tasks : u.k = "timer"}
  /\ {u \in tasks' : u.k = "init"}
       \subseteq ({u \in tasks : u.k = "init"} \ {t})
                    \cup {[t EXCEPT !.pc = "uiErr"], [t EXCEPT !.pc = "rethrown"]}
  /\ sockets' = sockets /\ connects' = connects

\* The step is the catch of startWhatsAppConnection: error once more, and
\* nothing is scheduled.
OpenFailureReported(t) ==
  /\ shop[t.shop] # NoRow
       => shop'[t.shop].connectionStatus = "error" /\ shop'[t.shop].qrCode = NullQr
  /\ tasks' = tasks \ {t}
  /\ sockets' = sockets /\ connects' = connects

AwaitingSettled(s) ==
  /\ \A t \in tasks : t.k # "write" /\ t.k # "init"
  /\ \E i \in 1..Len(sockets) :
       /\ sockets[i].shop = s /\ sockets[i].st = "qr"
       /\ \A k \in 1..Len(sockets) : sockets[k].shop = s => k = i
  /\ shop[s] # NoRow /\ shop[s].connectionStatus = "awaiting_scan"

\* C30: while a shop waits for its scan and its status writes have settled,
\* the row's qrCode is the challenge emitted last.
C30_LatestChallengeStored ==
  \A s \in Shops : AwaitingSettled(s) => shop[s].qrCode = Qr(qrCount)

\* ---------------------------------------------------------------- live
\* Socket i is open and it is the shop's only socket: the others were closed
\* before the connect attempt that made it.  No connect attempt has been
\* started since, no disconnect was ever requested, and nothing is in flight.
LiveSettled(i) ==
  /\ sockets[i].st = "open"
  /\ i = Len(sockets) /\ connects = Len(sockets)
  /\ \A k \in 1..(i - 1) : sockets[k].st = "closed" /\ sockets[k].closedAt < i
  /\ disconnects = 0
  /\ tasks = {}

\* C31: while a shop's socket is open and its status writes have settled, the
\* row reads connected without a challenge; a write started by an earlier
\* event does not replace connected.
C31_ConnectedAfterOpen ==
  \A i \in 1..Len(sockets) :
    LiveSettled(i) /\ shop[sockets[i].shop] # NoRow
      => /\ shop[sockets[i].shop].connectionStatus = "connected"
         /\ shop[sockets[i].shop].qrCode = NullQr

\* ---------------------------------------------------------------- schedule
\* The step queues payload p: a job for a later time waits for it, any other
\* job is eligible at once, with no delay and none below zero.
QueuedBySchedule(p) ==
  LET j == Len(jobs) + 1
  IN  IF p.scheduledAt # Absent /\ p.scheduledAt[1] > now
      THEN /\ jobs'[j].state = "delayed" /\ jobs'[j].at = p.scheduledAt[1]
           /\ j \notin Due'
      ELSE /\ jobs'[j].state = "waiting" /\ jobs'[j].at = now
           /\ j \in Due'

\* The step claims job j: its time, if it was given one, has come.
ClaimedInTime(j) ==
  jobs[j].payload.scheduledAt # Absent => now >= jobs[j].payload.scheduledAt[1]

\* C32: a job queued with scheduledAt in the future is not claimed before
\* that time; a job queued without scheduledAt, or with one that is not in
\* the future, is eligible at once.
C32_NotBeforeSchedule ==
  [][/\ \A p \in SchedulePayloads : QueueMessage(p) => QueuedBySchedule(p)
     /\ \A j \in JobIds : WorkerClaim(j) => ClaimedInTime(j)]_vars

\* A job scheduled for a later time has been claimed when the time had come,
\* and a job scheduled for a time gone by has been sent.
C32_Witness ==
  \E j \in JobIds, k \in JobIds :
    /\ jobs[j].payload.scheduledAt # Absent /\ jobs[j].payload.scheduledAt[1] >= 2
    /\ jobs[j].started = 1 /\ now >= jobs[j].payload.scheduledAt[1]
    /\ jobs[k].payload.scheduledAt # Absent /\ jobs[k].payload.scheduledAt[1] < jobs[k].at
    /\ jobs[k].state = "completed"

\* ---------------------------------------------------------------- flag
\* C33: in every row, whatsappConnected is true exactly when connectionStatus
\* is connected.
C33_FlagMatchesStatus ==
  \A s \in Shops :
    shop[s] # NoRow
      => (shop[s].whatsappConnected <=> shop[s].connectionStatus = "connected")

\* ---------------------------------------------------------------- disconnect, reconnect
\* The only socket the shop ever had was ended by a disconnect request, the
\* request has completed (the session is wiped, the row reads disconnected),
\* and no connect request has been made since.
DisconnectSettled(s) ==
  /\ Len(sockets) = 1 /\ sockets[1].shop = s
  /\ sockets[1].reason = "end" /\ sockets[1].closedAt = connects
  /\ \A t \in tasks : t.k = "timer"
  /\ shop[s] # NoRow
  /\ shop[s].connectionStatus = "disconnected"
  /\ shop[s].whatsappSession = JsonNull

\* C34: after an explicit disconnect the close event of the socket it ended
\* schedules no reconnect: no timer starts a connect attempt for the shop
\* while its disconnect stands.
C34_NoReconnectAfterDisconnect ==
  [][\A t \in tasks : TimerFire(t) => ~DisconnectSettled(t.shop)]_vars

\* ------------------------------------------------------------ billing
\* billing.service.ts (part_005).  A nullable value is <<>> (null) or <<v>>.
MaxCalls == 3
MaxIncrements == 2

Null == <<>>

PlanTypes == {"free", "starter", "growth", "pro", "lifetime"}

PLAN_LIMITS ==
  [p \in PlanTypes |->
     CASE p = "free" -> <<0>>
       [] p = "starter" -> <<1500>>
       [] p = "growth" -> <<3000>>
       [] p = "pro" -> Null
       [] p = "lifetime" -> Null]

\* JavaScript's `limit || 0` on a number or null.
OrZero(l) == IF l = Null THEN 0 ELSE l[1]

LIFETIME_PROMO_CODE == "kardickLegaChoco"
PromoCodes == {LIFETIME_PROMO_CODE, "WELCOME10"}

\* The billing columns of a Shop row, with the migration's defaults.
BillingRow(planType, subscriptionId) ==
  [planType |-> planType, messagesSent |-> 0,
   messagesLimit |-> OrZero(PLAN_LIMITS[planType]), subscriptionId |-> subscriptionId]

\* findUnique found no row for the domain.
NotFound == [found |-> FALSE]

\* Subscription names as Shopify returns them, letter by letter.
PlanNames ==
  {<<"P", "r", "o">>, <<"G", "r", "o", "w", "t", "h">>,
   <<"S", "t", "a", "r", "t", "e", "r">>, <<"B", "a", "s", "i", "c">>}

UpperCase == {"P", "G", "S", "B"}

toLowerCase(s) ==
  [i \in 1..Len(s) |->
     IF s[i] \in UpperCase
     THEN CASE s[i] = "P" -> "p" [] s[i] = "G" -> "g" [] s[i] = "S" -> "s" [] s[i] = "B" -> "b"
     ELSE s[i]]

includes(s, t) == \E i \in 1..(Len(s) - Len(t) + 1) : SubSeq(s, i, i + Len(t) - 1) = t

\* What checkShopifySubscription can return: no active subscription (or the
\* query failed), or the active subscription's id and name.
ShopifyStates ==
  {[hasActive |-> FALSE, subscriptionId |-> Null, planName |-> Null]}
    \cup {[hasActive |-> TRUE, subscriptionId |-> <<"gid-1">>, planName |-> <<n>>] : n \in PlanNames}

\* syncSubscriptionStatus: the plan type it reads off the subscription name.
newPlanType(st) ==
  IF st.hasActive /\ st.planName # Null
  THEN LET planName == toLowerCase(st.planName[1])
       IN  IF includes(planName, <<"p", "r", "o">>) THEN "pro"
           ELSE IF includes(planName, <<"g", "r", "o", "w", "t", "h">>) THEN "growth"
           ELSE IF includes(planName, <<"s", "t", "a", "r", "t", "e", "r">>) THEN "starter"
           ELSE "free"
  ELSE "free"

\* getShopBillingStatus(shopDomain), of the row it reads.
getShopBillingStatus(row) ==
  IF row = NotFound
  THEN [hasActiveSubscription |-> FALSE, planType |-> "free", messagesSent |-> 0,
        messagesLimit |-> <<0>>, messagesRemaining |-> <<0>>, canSendMessages |-> FALSE,
        subscriptionId |-> Null]
  ELSE LET planType == row.planType
           limit == PLAN_LIMITS[planType]
           messagesSent == row.messagesSent
           isUnlimited == limit = Null
           hasActiveSubscription == planType # "free"
           messagesRemaining ==
             IF isUnlimited THEN Null
             ELSE <<IF OrZero(limit) - messagesSent > 0 THEN OrZero(limit) - messagesSent ELSE 0>>
       IN  [hasActiveSubscription |-> hasActiveSubscription, planType |-> planType,
            messagesSent |-> messagesSent, messagesLimit |-> limit,
            messagesRemaining |-> messagesRemaining,
            canSendMessages |-> hasActiveSubscription
                                  /\ (isUnlimited \/ (messagesRemaining # Null /\ messagesRemaining[1] > 0)),
            subscriptionId |-> row.subscriptionId]

\* No status has been reported yet.
NoReport == [reported |-> FALSE]

BillingCall(k, pc, n, st, code) ==
  [k |-> k, pc |-> pc, n |-> n, shopify |-> st, code |-> code, plan |-> newPlanType(st)]

NoShopify == [hasActive |-> FALSE, subscriptionId |-> Null, planName |-> Null]

BillingUnchanged == UNCHANGED <<connVars, queueVars, codec, recon, worker>>

\* syncSubscriptionStatus(shopDomain, graphql) up to its findUnique:
\* checkShopifySubscription has answered st.
syncSubscriptionStatus(st) ==
  /\ billing.started < MaxCalls
  /\ billing' = [billing EXCEPT !.started = @ + 1,
                   !.calls = @ \cup {BillingCall("sync", "read", billing.started + 1, st, "")}]
  /\ BillingUnchanged

\* The findUnique of syncSubscriptionStatus and what it decides: a lifetime
\* row goes to the report; otherwise the row is updated when the subscription
\* id or the plan differ (of no row, they always do).
SyncRead(c) ==
  /\ c \in billing.calls /\ c.k = "sync" /\ c.pc = "read"
  /\ LET row == billing.row
         changed == row = NotFound \/ row.subscriptionId # c.shopify.subscriptionId
                      \/ row.planType # c.plan
         next == IF row # NotFound /\ row.planType = "lifetime" THEN "report"
                 ELSE IF changed THEN "update" ELSE "report"
     IN  billing' = [billing EXCEPT !.calls = (@ \ {c}) \cup {[c EXCEPT !.pc = next]}]
  /\ BillingUnchanged

\* The prisma.shop.update of syncSubscriptionStatus; it throws when there is
\* no row, and the call ends.
SyncUpdate(c) ==
  /\ c \in billing.calls /\ c.k = "sync" /\ c.pc = "update"
  /\ billing' =
       IF billing.row = NotFound
       THEN [billing EXCEPT !.calls = @ \ {c}]
       ELSE [billing EXCEPT
               !.row = [@ EXCEPT !.planType = c.plan,
                                 !.subscriptionId = c.shopify.subscriptionId,
                                 !.messagesLimit = OrZero(PLAN_LIMITS[c.plan])],
               !.calls = (@ \ {c}) \cup {[c EXCEPT !.pc = "report"]}]
  /\ BillingUnchanged

\* return getShopBillingStatus(shopDomain)
SyncReport(c) ==
  /\ c \in billing.calls /\ c.k = "sync" /\ c.pc = "report"
  /\ billing' = [billing EXCEPT !.report = getShopBillingStatus(billing.row),
                                !.calls = @ \ {c}]
  /\ BillingUnchanged

\* redeemPromoCode(shopDomain, promoCode) up to its findUnique.
redeemPromoCode(code) ==
  /\ billing.started < MaxCalls
  /\ billing' = [billing EXCEPT !.started = @ + 1,
                   !.calls = @ \cup {BillingCall("redeem", "read", billing.started + 1, NoShopify, code)}]
  /\ BillingUnchanged

\* The findUnique of redeemPromoCode and its three refusals.
RedeemRead(c) ==
  /\ c \in billing.calls /\ c.k = "redeem" /\ c.pc = "read"
  /\ billing' =
       IF billing.row = NotFound \/ billing.row.planType = "lifetime"
            \/ c.code # LIFETIME_PROMO_CODE
       THEN [billing EXCEPT !.calls = @ \ {c}]
       ELSE [billing EXCEPT !.calls = (@ \ {c}) \cup {[c EXCEPT !.pc = "update"]}]
  /\ BillingUnchanged

\* The prisma.shop.update of redeemPromoCode.
RedeemUpdate(c) ==
  /\ c \in billing.calls /\ c.k = "redeem" /\ c.pc = "update"
  /\ billing' = [billing EXCEPT
                   !.row = [@ EXCEPT !.planType = "lifetime", !.messagesLimit = 0,
                                     !.subscriptionId = <<"PROMO_LIFETIME">>],
                   !.calls = @ \ {c}]
  /\ BillingUnchanged

\* The dashboard's loader: getShopBillingStatus(shop).
BillingStatusRead ==
  /\ billing' = [billing EXCEPT !.report = getShopBillingStatus(billing.row)]
  /\ BillingUnchanged

\* incrementMessageCount(shopDomain, count)
MessageCounts == {1, 1500}

incrementMessageCount(count) ==
  /\ billing.row # NotFound
  /\ billing.increments < MaxIncrements
  /\ billing' = [billing EXCEPT !.row.messagesSent = @ + count, !.increments = @ + 1]
  /\ BillingUnchanged

\* The rows a shop can have when the first call arrives.
BillingRows ==
  {NotFound, BillingRow("free", Null), BillingRow("starter", <<"gid-1">>),
   BillingRow("lifetime", <<"PROMO_LIFETIME">>)}

BillingInit ==
  /\ shop = [s \in Shops |-> NewShop]
  /\ sockets = <<>>
  /\ services = <<>>
  /\ activeConnections = [s \in Shops |-> 0]
  /\ tasks = {}
  /\ connects = 0
  /\ nextCred = 2
  /\ qrCount = 0
  /\ credUpdates = 0
  /\ disconnects = 0
  /\ events = 0
  /\ now = 1
  /\ jobs = <<>>
  /\ history = <<>>
  /\ codec = NoCodec
  /\ recon = NoRecon
  /\ worker = WorkerUp
  /\ \E row \in BillingRows :
       billing = [pc |-> "on", row |-> row, calls |-> {}, report |-> NoReport,
                  started |-> 0, increments |-> 0]

BillingNext ==
  \/ \E st \in ShopifyStates : syncSubscriptionStatus(st)
  \/ \E c \in billing.calls : SyncRead(c)
  \/ \E c \in billing.calls : SyncUpdate(c)
  \/ \E c \in billing.calls : SyncReport(c)
  \/ \E code \in PromoCodes : redeemPromoCode(code)
  \/ \E c \in billing.calls : RedeemRead(c)
  \/ \E c \in billing.calls : RedeemUpdate(c)
  \/ BillingStatusRead
  \/ \E count \in MessageCounts : incrementMessageCount(count)

SpecBilling == BillingInit /\ [][BillingNext]_vars

\* ---------------------------------------------------------------- lifetime
\* C35: once the row's planType is lifetime it stays lifetime under every
\* step of syncSubscriptionStatus and redeemPromoCode, and getShopBillingStatus
\* of a lifetime row says canSendMessages with no message limit.
C35_LifetimeStays ==
  /\ [][billing.row # NotFound /\ billing.row.planType = "lifetime"
          => billing'.row.planType = "lifetime"]_vars
  /\ [](billing.row # NotFound /\ billing.row.planType = "lifetime"
          => /\ getShopBillingStatus(billing.row).canSendMessages
             /\ getShopBillingStatus(billing.row).messagesLimit = Null)

====
